---- MODULE Spec2Model ----
(***************************************************************************)
(* A model of the slidegen conversion pipeline (src/converter): the        *)
(* Structure Extractor (stage 1) and the Repair & Validation Engine        *)
(* (clean_latex_response and the passes of _finalize_latex).               *)
(* Generic helpers (token constructors, Has, Count, Strip, SplitNL,        *)
(* JoinNL, SeqsUpTo, the JSON value constructors, the run.log helpers)     *)
(* stand for Python built-ins and bookkeeping, not for code of the program. *)
(* Further specifications: SpecParse (the stage 2 response parser),        *)
(* SpecConvert (main.py: one conversion from the command line to the exit  *)
(* code, run.log being the calls made so far), SpecClean (clean applied    *)
(* twice), SpecOrder (the two final passes in either order), SpecStructure *)
(* (basic body and page structure of one input), SpecPlacement             *)
(* (prepare_image_placement_data), SpecSyntax (_fix_latex_syntax),         *)
(* SpecFrames (validate_frame_structure) and SpecEnvelope (clean applied   *)
(* to wrapped bodies).                                                     *)
(*                                                                         *)
(* Text is modelled as a sequence of tokens.  A token stands for a fixed   *)
(* piece of text; the passes of the program are string searches and        *)
(* regular-expression rewrites, and each is modelled by what it does to    *)
(* the tokens its pattern can match:                                       *)
(*   BF   \begin{frame}        EF   \end{frame}       CEN  \centering      *)
(*   NL   newline              SP   blank             x    a letter        *)
(*   LB   {                    RB   }                 BSL  backslash       *)
(*   AMP  &                    DOLLAR $               HY   -               *)
(*   FENCEL ```latex           FENCE ```                                   *)
(*   BD   \begin{document}     ED   \end{document}                         *)
(*   BA   \begin{align*}       EA   \end{align*}      DBS  \\              *)
(*   TEXTC \text{x}            BENUM/EENUM, BITEM/EITEM  list environments *)
(*   UMINUS, ENDASH, EMDASH    the three typographic dashes                *)
(*   IG   \includegraphics[w]{path} (opt) or \includegraphics{path}        *)
(*   HASH #    STARS **    TEXTBF \textbf{    BIBITEM \bibitem{             *)
(*   ALPHA the letter alpha, ALPHACMD \alpha; SYM infinity, INFTY \infty    *)
(*   BFX \begin\{frame\}   EFX \end\{frame\}   TEXTBFX \textbf\{          *)
(*   MDIMG ![](path), MDIMGX the same with every _ escaped                 *)
(*   NUM a decimal number   SECTION \section                               *)
(*   TOC \tableofcontents   Contents, Slide: the words                    *)
(* A path is the sequence of its segments between slashes.                 *)
(***************************************************************************)
EXTENDS Integers, Sequences, FiniteSets, TLC

VARIABLES pc, body, prev, avail, markdown, run

vars == <<pc, body, prev, avail, markdown, run>>

(***************************************************************************)
(* Tokens                                                                  *)
(***************************************************************************)
Tok(k) == [k |-> k, opt |-> FALSE, path |-> <<>>, n |-> 0]

IG(o, p) == [k |-> "IG", opt |-> o, path |-> p, n |-> 0]

\* a decimal number, and a markdown image line ![](path)
Num(n) == [k |-> "NUM", opt |-> FALSE, path |-> <<>>, n |-> n]

MdImg(p) == [k |-> "MDIMG", opt |-> FALSE, path |-> p, n |-> 0]

NLTok == Tok("NL")

Has(s, k) == \E i \in DOMAIN s : s[i].k = k

Count(s, k) == Cardinality({i \in DOMAIN s : s[i].k = k})

\* index of the first token of kind k, 0 when there is none (str.find)
Find(s, k) ==
    IF Has(s, k) THEN CHOOSE i \in DOMAIN s : s[i].k = k /\ \A j \in 1..(i-1) : s[j].k # k
    ELSE 0

IsSpace(t) == t.k \in {"NL", "SP"}

\* tokens that are one character long
SingleChar(t) == t.k \in {"NL", "SP", "x", "LB", "RB", "BSL", "AMP", "DOLLAR", "HY", "HASH", "UMINUS", "ENDASH", "EMDASH", "ALPHA", "SYM"}

\* number of '{' and of '}' in the text of a token
OpenBraces(t) ==
    IF t.k \in {"BF", "EF", "LB", "BD", "ED", "BA", "EA", "TEXTC", "BENUM", "EENUM", "BITEM", "EITEM", "IG", "BFX", "EFX", "TEXTBF", "TEXTBFX", "BIBITEM", "BIBITEMX"}
    THEN 1 ELSE 0

CloseBraces(t) ==
    IF t.k \in {"BF", "EF", "RB", "BD", "ED", "BA", "EA", "TEXTC", "BENUM", "EENUM", "BITEM", "EITEM", "IG", "BFX", "EFX"}
    THEN 1 ELSE 0

\* str.count('{') and str.count('}')
RECURSIVE CountOpen(_)
CountOpen(s) == IF s = <<>> THEN 0 ELSE OpenBraces(Head(s)) + CountOpen(Tail(s))

RECURSIVE CountClose(_)
CountClose(s) == IF s = <<>> THEN 0 ELSE CloseBraces(Head(s)) + CountClose(Tail(s))

\* str.split('\n')
RECURSIVE SplitNL(_)
SplitNL(s) ==
    IF ~Has(s, "NL") THEN <<s>>
    ELSE LET i == Find(s, "NL")
         IN <<SubSeq(s, 1, i - 1)>> \o SplitNL(SubSeq(s, i + 1, Len(s)))

\* '\n'.join(lines)
RECURSIVE JoinNL(_)
JoinNL(ls) ==
    IF Len(ls) = 0 THEN <<>>
    ELSE IF Len(ls) = 1 THEN ls[1]
    ELSE ls[1] \o <<NLTok>> \o JoinNL(Tail(ls))

\* str.lstrip() / str.rstrip() / str.strip()
RECURSIVE LStrip(_)
LStrip(s) == IF s # <<>> /\ IsSpace(Head(s)) THEN LStrip(Tail(s)) ELSE s

RECURSIVE RStrip(_)
RStrip(s) == IF s # <<>> /\ IsSpace(s[Len(s)]) THEN RStrip(SubSeq(s, 1, Len(s) - 1)) ELSE s

Strip(s) == RStrip(LStrip(s))

\* os.path.basename
Basename(p) == p[Len(p)]

(***************************************************************************)
(* File names.  InName(f, g): the text f occurs inside the text g.         *)
(***************************************************************************)
PatternNames == {"page_1_img_1.png", "page_2_img_1.png"}

InName(f, g) == f = g \/ <<f, g>> \in {<<"fig.png", "bigfig.png">>}

\* page_\d+_img_\d+\.png occurs in the segment
IsPattern(seg) == \E f \in PatternNames : InName(f, seg)

(***************************************************************************)
(* validate_frame_structure: the frame-scope filter                        *)
(***************************************************************************)
RECURSIVE FrameScan(_, _)
FrameScan(lines, in_frame) ==
    IF Len(lines) = 0 THEN <<>>
    ELSE LET line == Head(lines)
             now == IF Has(line, "BF") THEN TRUE
                    ELSE IF Has(line, "EF") THEN FALSE
                    ELSE in_frame
         IN IF Has(line, "CEN") /\ ~now
            THEN FrameScan(Tail(lines), now)
            ELSE <<line>> \o FrameScan(Tail(lines), now)

validate_frame_structure(c) == JoinNL(FrameScan(SplitNL(c), FALSE))

(***************************************************************************)
(* remove_duplicate_images                                                 *)
(***************************************************************************)
\* \\includegraphics\[[^\]]*\]\{([^}]+)\} matches the token
IsRef(t) == t.k = "IG" /\ t.opt /\ Len(t.path) > 0

\* re.search: the index of the first match in the line, 0 when there is none
FirstRef(line) ==
    IF \E i \in DOMAIN line : IsRef(line[i])
    THEN CHOOSE i \in DOMAIN line : IsRef(line[i]) /\ \A j \in 1..(i-1) : ~IsRef(line[j])
    ELSE 0

RECURSIVE DupScan(_, _)
DupScan(lines, seen_images) ==
    IF Len(lines) = 0 THEN <<>>
    ELSE LET line == Head(lines)
             m == IF Has(line, "IG") THEN FirstRef(line) ELSE 0
         IN IF m = 0 THEN <<line>> \o DupScan(Tail(lines), seen_images)
            ELSE LET image_filename == Basename(line[m].path)
                 IN IF image_filename \in seen_images
                    THEN DupScan(Tail(lines), seen_images)
                    ELSE <<line>> \o DupScan(Tail(lines), seen_images \cup {image_filename})

remove_duplicate_images(c) == JoinNL(DupScan(SplitNL(c), {}))

(***************************************************************************)
(* validate_and_fix_image_references                                       *)
(***************************************************************************)
\* the file names of the references re.findall returns
RefNames(c) == {Basename(c[i].path) : i \in {j \in DOMAIN c : IsRef(c[j])}}

\* \{[^}]*<filename>[^}]*\} matches the path: the name occurs in its text
PathContains(p, filename) == \E i \in DOMAIN p : InName(filename, p[i])

validate_and_fix_image_references(c, available_filenames) ==
    LET missing == RefNames(c) \ available_filenames
        Kept(t) == ~(IsRef(t) /\ \E f \in missing : PathContains(t.path, f))
    IN SelectSeq(c, Kept)

(***************************************************************************)
(* _fix_image_paths: four substitutions, each over the whole body          *)
(***************************************************************************)
\* {images/images/X} -> {images/X}
PathDoubled(p) ==
    IF Len(p) >= 3 /\ p[1] = "images" /\ p[2] = "images" THEN Tail(p) ELSE p

\* {D/images/X} -> {images/X}, D the longest prefix (greedy)
PathOtherDir(p) ==
    LET at == {i \in 2..(Len(p) - 1) : p[i] = "images"}
    IN IF at = {} THEN p
       ELSE LET i == CHOOSE i \in at : \A j \in at : j <= i
            IN <<"images">> \o SubSeq(p, i + 1, Len(p))

\* {..page_N_img_M.png..} -> {images/..page_N_img_M.png..}
PathAddPrefix(p) ==
    IF \E i \in DOMAIN p : IsPattern(p[i]) THEN <<"images">> \o p ELSE p

\* {..output/..page_N_img_M.png..} -> {images/..output/..page_N_img_M.png..}
PathOutput(p) ==
    IF \E i \in DOMAIN p : \E j \in DOMAIN p : i < j /\ p[i] = "output" /\ IsPattern(p[j])
    THEN <<"images">> \o p ELSE p

FixPath(p) == PathOutput(PathAddPrefix(PathOtherDir(PathDoubled(p))))

_fix_image_paths(c) ==
    [i \in DOMAIN c |-> IF IsRef(c[i]) THEN IG(TRUE, FixPath(c[i].path)) ELSE c[i]]

(***************************************************************************)
(* _fix_brace_matching and the frame check of _fix_latex_syntax            *)
(***************************************************************************)
BraceMismatch(c) == CountOpen(c) # CountClose(c)

FrameMismatch(c) == Count(c, "BF") # Count(c, "EF")

(***************************************************************************)
(* clean_latex_response, pass by pass                                      *)
(***************************************************************************)
\* startswith('```latex'): drop every fence, then strip
StripFences(c) ==
    LET NotFence(t) == t.k \notin {"FENCEL", "FENCE"}
    IN IF c # <<>> /\ c[1].k = "FENCEL" THEN Strip(SelectSeq(c, NotFence)) ELSE c

\* the text between the first \begin{document} and the first \end{document},
\* taken only when end_idx > start_idx
ExtractDocument(c) ==
    LET b == Find(c, "BD")
        e == Find(c, "ED")
    IN IF b # 0 /\ e > b + 1 THEN Strip(SubSeq(c, b + 1, e - 1)) ELSE c

\* a \begin{document} still leading the stripped text is removed (the first one)
DropLeadingBegin(c) ==
    LET t == Strip(c)
        b == Find(c, "BD")
    IN IF t # <<>> /\ t[1].k = "BD"
       THEN Strip(SubSeq(c, 1, b - 1) \o SubSeq(c, b + 1, Len(c)))
       ELSE c

\* re.sub(r'\\end\{document\}.*$', '', flags=MULTILINE)
CutAtEnd(line) == IF Has(line, "ED") THEN SubSeq(line, 1, Find(line, "ED") - 1) ELSE line

DropTrailingEnd(c) ==
    LET lines == SplitNL(c)
    IN JoinNL([i \in DOMAIN lines |-> CutAtEnd(lines[i])])

\* \s*\n\s* then a token of kind k: the index of that token, 0 when no match
RECURSIVE SkipSpace(_, _)
SkipSpace(s, i) == IF i <= Len(s) /\ IsSpace(s[i]) THEN SkipSpace(s, i + 1) ELSE i

GapTo(s, i, k) ==
    LET m == SkipSpace(s, i + 1)
    IN IF m <= Len(s) /\ s[m].k = k /\ (\E j \in (i + 1)..(m - 1) : s[j].k = "NL")
       THEN m ELSE 0

\* \\centering\s*\n\s*\\includegraphics -> \\centering\n\\includegraphics
RECURSIVE CenterScan(_, _)
CenterScan(s, i) ==
    IF i > Len(s) THEN <<>>
    ELSE IF s[i].k = "CEN" /\ GapTo(s, i, "IG") # 0
         THEN <<s[i], NLTok>> \o CenterScan(s, GapTo(s, i, "IG"))
         ELSE <<s[i]>> \o CenterScan(s, i + 1)

\* \\centering\s*\n\s*\\includegraphics([^}]+)\}\s*\n\s*\\end\{frame\}
RECURSIVE CenterEndScan(_, _)
CenterEndScan(s, i) ==
    IF i > Len(s) THEN <<>>
    ELSE LET m == IF s[i].k = "CEN" THEN GapTo(s, i, "IG") ELSE 0
             n == IF m # 0 THEN GapTo(s, m, "EF") ELSE 0
         IN IF n # 0
            THEN <<s[i], NLTok, s[m], NLTok, s[n]>> \o CenterEndScan(s, n + 1)
            ELSE <<s[i]>> \o CenterEndScan(s, i + 1)

FixCentering(c) == CenterEndScan(CenterScan(c, 1), 1)

\* content.split('\\\\')
RECURSIVE SplitDBS(_)
SplitDBS(s) ==
    IF ~Has(s, "DBS") THEN <<s>>
    ELSE LET i == Find(s, "DBS")
         IN <<SubSeq(s, 1, i - 1)>> \o SplitDBS(SubSeq(s, i + 1, Len(s)))

RECURSIVE JoinWith(_, _)
JoinWith(ls, sep) ==
    IF Len(ls) = 0 THEN <<>>
    ELSE IF Len(ls) = 1 THEN ls[1]
    ELSE ls[1] \o sep \o JoinWith(Tail(ls), sep)

StripAll(ls) == [i \in DOMAIN ls |-> Strip(ls[i])]

fix_align_environment(content) ==
    LET parts == SplitDBS(content)
        IsText(q) == Has(q, "TEXTC")
        IsMath(q) == ~Has(q, "TEXTC")
        text_parts == StripAll(SelectSeq(parts, IsText))
        math_parts == StripAll(SelectSeq(parts, IsMath))
    IN IF Has(content, "TEXTC") /\ Len(math_parts) > 0 /\ Len(text_parts) > 0
       THEN <<Tok("BA"), NLTok>> \o JoinWith(math_parts, <<Tok("SP"), Tok("DBS"), NLTok>>)
            \o <<NLTok, Tok("EA"), NLTok>> \o <<NLTok>> \o JoinNL(text_parts)
       ELSE <<Tok("BA")>> \o content \o <<Tok("EA")>>

\* re.sub(r'\\begin\{align\*\}(.*?)\\end\{align\*\}', fix_align_environment, DOTALL)
RECURSIVE _fix_math_environments(_)
_fix_math_environments(c) ==
    LET b == Find(c, "BA")
        rest == SubSeq(c, b + 1, Len(c))
        e == Find(rest, "EA")
    IN IF b = 0 \/ e = 0 THEN c
       ELSE SubSeq(c, 1, b - 1) \o fix_align_environment(SubSeq(rest, 1, e - 1))
            \o _fix_math_environments(SubSeq(rest, e + 1, Len(rest)))

\* latex_processing._fix_unicode_characters: the three dashes
RECURSIVE _fix_unicode_characters(_)
_fix_unicode_characters(c) ==
    IF c = <<>> THEN <<>>
    ELSE LET t == Head(c)
             r == IF t.k = "UMINUS" THEN <<Tok("HY")>>
                  ELSE IF t.k = "ENDASH" THEN <<Tok("HY"), Tok("HY")>>
                  ELSE IF t.k = "EMDASH" THEN <<Tok("HY"), Tok("HY"), Tok("HY")>>
                  ELSE <<t>>
         IN r \o _fix_unicode_characters(Tail(c))

\* re.sub(r'([^$])\&([^$])', r'\1\\&\2'): a leftmost, non-overlapping scan of
\* the characters.  used: the first character of s[i] was taken as \2 by the
\* match before, so a one-character token cannot serve as \1.
RECURSIVE AmpScan(_, _, _)
AmpScan(s, i, used) ==
    IF i > Len(s) THEN <<>>
    ELSE IF /\ (~SingleChar(s[i]) \/ ~used)
            /\ s[i].k # "DOLLAR"
            /\ i + 2 <= Len(s)
            /\ s[i + 1].k = "AMP"
            /\ s[i + 2].k # "DOLLAR"
         THEN <<s[i], Tok("BSL"), s[i + 1]>> \o AmpScan(s, i + 2, TRUE)
         ELSE <<s[i]>> \o AmpScan(s, i + 1, FALSE)

EscapeAmpersands(c) == AmpScan(c, 1, FALSE)

\* \begin{enumerate} -> \begin{itemize}, \end{enumerate} -> \end{itemize}
ItemizeLists(c) ==
    [i \in DOMAIN c |-> IF c[i].k = "BENUM" THEN Tok("BITEM")
                        ELSE IF c[i].k = "EENUM" THEN Tok("EITEM")
                        ELSE c[i]]

\* the body as _fix_latex_syntax sees it after its substitutions
SyntaxRepaired(c) ==
    ItemizeLists(EscapeAmpersands(_fix_unicode_characters(_fix_math_environments(
        FixCentering(DropTrailingEnd(DropLeadingBegin(ExtractDocument(StripFences(c)))))))))

\* a clean that would only warn about a frame mismatch and raise on braces alone
CleanRaisesOnBracesOnly(c) ==
    /\ c # <<>>
    /\ BraceMismatch(_fix_image_paths(SyntaxRepaired(c)))

\* _fix_latex_syntax raises on a frame mismatch, _fix_brace_matching on a brace
\* mismatch (after _fix_image_paths)
CleanRaises(c) ==
    /\ c # <<>>
    /\ \/ FrameMismatch(SyntaxRepaired(c))
       \/ BraceMismatch(_fix_image_paths(SyntaxRepaired(c)))

clean_latex_response(c) ==
    IF c = <<>> THEN <<>> ELSE _fix_image_paths(SyntaxRepaired(c))

(***************************************************************************)
(* text_processing: convert_text_to_latex and convert_markdown_to_latex    *)
(***************************************************************************)
\* re.sub(r'\*\*(.*?)\*\*', r'\\textbf{\1}'): '.' does not match a newline
RECURSIVE BoldScan(_, _)
BoldScan(s, i) ==
    IF i > Len(s) THEN <<>>
    ELSE LET after == {j \in (i + 1)..Len(s) : s[j].k = "STARS"}
             j == IF after = {} THEN 0 ELSE CHOOSE j \in after : \A m \in after : j <= m
         IN IF s[i].k = "STARS" /\ j # 0 /\ (\A m \in i..j : s[m].k # "NL")
            THEN <<Tok("TEXTBF")>> \o SubSeq(s, i + 1, j - 1) \o <<Tok("RB")>> \o BoldScan(s, j + 1)
            ELSE <<s[i]>> \o BoldScan(s, i + 1)

Bold(s) == BoldScan(s, 1)

\* the replacements of _escape_latex_characters on one token
EscapeToken(t) ==
    IF t.k \in {"AMP", "DOLLAR", "HASH", "LB", "RB"} THEN <<Tok("BSL"), t>>
    ELSE IF t.k = "BF" THEN <<Tok("BFX")>>
    ELSE IF t.k = "EF" THEN <<Tok("EFX")>>
    ELSE IF t.k = "TEXTBF" THEN <<Tok("TEXTBFX")>>
    ELSE IF t.k = "BIBITEM" THEN <<Tok("BIBITEMX")>>
    ELSE IF t.k = "MDIMG" THEN <<[t EXCEPT !.k = "MDIMGX"]>>
    ELSE <<t>>

RECURSIVE _escape_latex_characters(_)
_escape_latex_characters(s) ==
    IF s = <<>> THEN <<>> ELSE EscapeToken(Head(s)) \o _escape_latex_characters(Tail(s))

\* re.split(r'(\$[^$]*\$)', text): the parts between two dollars are kept as
\* they are, the others are escaped
RECURSIVE _escape_latex_characters_smart(_)
_escape_latex_characters_smart(s) ==
    LET a == Find(s, "DOLLAR")
        rest == SubSeq(s, a + 1, Len(s))
        b == Find(rest, "DOLLAR")
    IN IF a = 0 \/ b = 0 THEN _escape_latex_characters(s)
       ELSE _escape_latex_characters(SubSeq(s, 1, a - 1))
            \o <<s[a]>> \o SubSeq(rest, 1, b)
            \o _escape_latex_characters_smart(SubSeq(rest, b + 1, Len(rest)))

\* text_processing._fix_unicode_characters and _fix_greek_letters: the dashes
\* become hyphens, a symbol or a Greek letter becomes $\command$
RECURSIVE FixSymbols(_)
FixSymbols(s) ==
    IF s = <<>> THEN <<>>
    ELSE LET t == Head(s)
             r == IF t.k = "UMINUS" THEN <<Tok("HY")>>
                  ELSE IF t.k = "ENDASH" THEN <<Tok("HY"), Tok("HY")>>
                  ELSE IF t.k = "EMDASH" THEN <<Tok("HY"), Tok("HY"), Tok("HY")>>
                  ELSE IF t.k = "SYM" THEN <<Tok("DOLLAR"), Tok("INFTY"), Tok("DOLLAR")>>
                  ELSE IF t.k = "ALPHA" THEN <<Tok("DOLLAR"), Tok("ALPHACMD"), Tok("DOLLAR")>>
                  ELSE <<t>>
         IN r \o FixSymbols(Tail(s))

convert_text_to_latex(text) ==
    IF text = <<>> THEN <<>>
    ELSE FixSymbols(_escape_latex_characters_smart(Bold(text)))

\* f"\\begin{{frame}}{{{title}}}"
FrameOpen(title) == <<Tok("BF"), Tok("LB")>> \o title \o <<Tok("RB")>>

SlideTitle(n) == <<Tok("Slide"), Tok("SP"), Num(n)>>

\* the line is ![](path): it starts with '![](' and ends with ')'
IsImageLine(line) == line[1].k = "MDIMG" /\ line[Len(line)].k = "MDIMG"

\* 'page_' in img_path and '_img_' in img_path
IsCustomImage(line) ==
    \E i \in DOMAIN line : line[i].k = "MDIMG" /\ \E j \in DOMAIN line[i].path : IsPattern(line[i].path[j])

\* os.path.basename(img_path): what follows the last slash between '![](' and
\* the last ')'.  In a line of several tokens that is the last file name when
\* its path has a slash, and otherwise a text ("joined") that names no file
ImageLineName(line) ==
    LET last == line[Len(line)]
    IN IF Len(line) = 1 \/ Len(last.path) > 1 THEN Basename(last.path) ELSE "joined"

RECURSIVE LStripHash(_)
LStripHash(s) == IF s # <<>> /\ Head(s).k = "HASH" THEN LStripHash(Tail(s)) ELSE s

\* line.replace('&', '\\&')
RECURSIVE EscapeEveryAmp(_)
EscapeEveryAmp(s) ==
    IF s = <<>> THEN <<>>
    ELSE (IF Head(s).k = "AMP" THEN <<Tok("BSL"), Head(s)>> ELSE <<Head(s)>>)
         \o EscapeEveryAmp(Tail(s))

\* the loop of convert_markdown_to_latex: the lines it appends to latex_lines
RECURSIVE MarkdownScan(_, _, _)
MarkdownScan(lines, current_frame, frame_count) ==
    IF Len(lines) = 0
    THEN IF current_frame THEN <<<<Tok("EF")>>>> ELSE <<>>
    ELSE LET raw == Strip(Head(lines))
             rest == Tail(lines)
             line == FixSymbols(_escape_latex_characters(Bold(raw)))
             heading_text == Strip(LStripHash(line))
             closing == IF current_frame THEN <<<<Tok("EF")>>>> ELSE <<>>
             opening == IF current_frame THEN <<>>
                        ELSE <<FrameOpen(SlideTitle(frame_count + 1))>>
             opened == IF current_frame THEN frame_count ELSE frame_count + 1
             content == IF line[1].k = "BIBITEM" THEN EscapeEveryAmp(line) ELSE line
         IN IF raw = <<>> THEN MarkdownScan(rest, current_frame, frame_count)
            ELSE IF IsImageLine(raw)
            THEN (IF IsCustomImage(raw)
                  THEN <<<<IG(TRUE, <<"images", ImageLineName(raw)>>)>>>>
                  ELSE <<>>) \o MarkdownScan(rest, current_frame, frame_count)
            ELSE IF line[1].k = "HASH"
            THEN IF heading_text # <<>>
                 THEN closing
                      \o <<<<Tok("SECTION"), Tok("LB")>> \o heading_text \o <<Tok("RB")>>,
                           FrameOpen(SlideTitle(frame_count + 1))>>
                      \o MarkdownScan(rest, TRUE, frame_count + 1)
                 ELSE closing \o MarkdownScan(rest, FALSE, frame_count)
            ELSE opening \o <<content>> \o MarkdownScan(rest, TRUE, opened)

convert_markdown_to_latex(markdown_text) ==
    JoinNL(MarkdownScan(SplitNL(markdown_text), FALSE, 0))

(***************************************************************************)
(* stage1_basic_latex: create_basic_latex_structure                        *)
(* The extracted "markdown" is [form, pages, text]: a list of entries      *)
(* (form = "list") or one string (form = "text").  An entry is             *)
(* [dict, toc, title, text]: dict says whether it is a page record; toc is *)
(* "absent" (no toc_items key), "empty" (toc_items = []), "short"          *)
(* (toc_items[0] has one element) or "title" (toc_items[0][1] = title).    *)
(***************************************************************************)
ContentsFrame ==
    <<FrameOpen(<<Tok("Contents")>>),
      <<Tok("SP"), Tok("SP"), Tok("SP"), Tok("SP"), Tok("TOC")>>,
      <<Tok("EF")>>,
      <<>>>>

PageTitle(page_data, frame_count) ==
    IF page_data.toc = "title" THEN page_data.title ELSE SlideTitle(frame_count)

\* the loop over the list: the lines appended after the Contents frame
RECURSIVE PageScan(_, _, _)
PageScan(pages, current_frame, frame_count) ==
    IF Len(pages) = 0
    THEN IF current_frame THEN <<<<Tok("EF")>>>> ELSE <<>>
    ELSE LET page_data == Head(pages)
             closing == IF current_frame THEN <<<<Tok("EF")>>>> ELSE <<>>
             text_lines == IF page_data.text # <<>>
                           THEN <<convert_text_to_latex(page_data.text)>> ELSE <<>>
         IN IF page_data.dict
            THEN closing
                 \o <<FrameOpen(PageTitle(page_data, frame_count + 1))>>
                 \o text_lines
                 \o PageScan(Tail(pages), TRUE, frame_count + 1)
            ELSE PageScan(Tail(pages), current_frame, frame_count)

create_basic_latex_structure(markdown_content) ==
    IF markdown_content.form = "list"
    THEN JoinNL(ContentsFrame \o PageScan(markdown_content.pages, FALSE, 0))
    ELSE convert_markdown_to_latex(markdown_content.text)

(***************************************************************************)
(* Bounds and input sets                                                   *)
(***************************************************************************)
MaxBody == 4

MaxPathBody == 2

MaxImageBody == 4

MaxPages == 3

MaxMarkdown == 4

SeqsUpTo(A, n) == UNION {[1..m -> A] : m \in 0..n}

NoMarkdown == [form |-> "text", pages |-> <<>>, text |-> <<>>]

\* no conversion is running: nothing called, nothing written, nothing returned.
\* log lists the calls made so far, cleaned the bodies handed to
\* clean_latex_response, error the call whose exception was caught, files the
\* entries of the output directory.
NoRun ==
    [cleanup_temp |-> FALSE, dir |-> "none", extracted |-> FALSE, images |-> {},
     plan |-> [t |-> "obj", s |-> "", m |-> <<>>], log |-> <<>>, cleaned |-> <<>>,
     placed |-> {}, conversions |-> {}, submitted |-> {}, structure |-> <<>>,
     entries |-> <<>>, files |-> {},
     error |-> "", result |-> "unset", uncaught |-> FALSE, exit |-> -1]

\* bodies the synthesis capability may return to _finalize_latex
RepairAlphabet ==
    {Tok("BF"), Tok("EF"), Tok("NL"), Tok("LB"), Tok("RB"), Tok("CEN"),
     IG(TRUE, <<"images", "fig.png">>), IG(FALSE, <<"images", "fig.png">>)}

RepairFiles == {"fig.png"}

\* every shape of image reference
PathShapes ==
    {<<"page_1_img_1.png">>, <<"images", "page_1_img_1.png">>,
     <<"images", "images", "page_1_img_1.png">>, <<"output", "page_1_img_1.png">>,
     <<"x", "images", "page_1_img_1.png">>,
     <<"fig.png">>, <<"images", "fig.png">>, <<"images", "images", "fig.png">>,
     <<"x", "images", "fig.png">>}

PathAlphabet ==
    {IG(TRUE, p) : p \in PathShapes} \cup {IG(FALSE, <<"page_1_img_1.png">>), Tok("NL")}

ImageAlphabet ==
    {Tok("NL"), Tok("x"), IG(TRUE, <<"fig.png">>), IG(TRUE, <<"images", "fig.png">>),
     IG(TRUE, <<"images", "bigfig.png">>), IG(FALSE, <<"fig.png">>)}

ImageFiles == {"fig.png", "bigfig.png"}

\* page texts: empty, plain, and a math span that quotes a frame marker
PageTexts ==
    {<<>>, <<Tok("x")>>,
     <<Tok("DOLLAR"), Tok("BF"), Tok("DOLLAR")>>,
     <<Tok("DOLLAR"), Tok("EF"), Tok("DOLLAR")>>}

PageEntries ==
    {[dict |-> FALSE, toc |-> "absent", title |-> <<>>, text |-> <<>>]}
    \cup {[dict |-> TRUE, toc |-> c, title |-> <<>>, text |-> t] :
             c \in {"absent", "empty", "short"}, t \in PageTexts}
    \cup {[dict |-> TRUE, toc |-> "title", title |-> <<Tok("x")>>, text |-> t] : t \in PageTexts}

MarkdownAlphabet ==
    {Tok("x"), Tok("NL"), Tok("SP"), Tok("HASH"), Tok("BF"), MdImg(<<"page_1_img_1.png">>)}

StructuredInputs ==
    {[form |-> "list", pages |-> ps, text |-> <<>>] : ps \in SeqsUpTo(PageEntries, MaxPages)}

TextInputs ==
    {[form |-> "text", pages |-> <<>>, text |-> t] : t \in SeqsUpTo(MarkdownAlphabet, MaxMarkdown)}

(***************************************************************************)
(* PDFToLatexConverter._finalize_latex, pass by pass.  pc is the position  *)
(* in the method: "finalize" on entry, "raised" when clean_latex_response  *)
(* raised, "done" when the method has returned.  prev is the body on entry *)
(***************************************************************************)
Init ==
    /\ pc = "finalize"
    /\ body \in SeqsUpTo(RepairAlphabet, MaxBody)
    /\ prev = body
    /\ avail \in SUBSET RepairFiles
    /\ markdown = NoMarkdown
    /\ run = NoRun

FinalizeClean ==
    /\ pc = "finalize"
    /\ IF CleanRaises(body)
       THEN pc' = "raised" /\ body' = body
       ELSE pc' = "cleaned" /\ body' = clean_latex_response(body)
    /\ UNCHANGED <<prev, avail, markdown, run>>

\* a finalization that would remove duplicates where the references are due
FinalizeDuplicatesBeforeReferences ==
    /\ pc = "cleaned"
    /\ body' = remove_duplicate_images(body)
    /\ pc' = "validated"
    /\ UNCHANGED <<prev, avail, markdown, run>>

FinalizeValidateReferences ==
    /\ pc = "cleaned"
    /\ body' = validate_and_fix_image_references(body, avail)
    /\ pc' = "validated"
    /\ UNCHANGED <<prev, avail, markdown, run>>

FinalizeFrameStructure ==
    /\ pc = "validated"
    /\ body' = validate_frame_structure(body)
    /\ pc' = "filtered"
    /\ UNCHANGED <<prev, avail, markdown, run>>

FinalizeRemoveDuplicates ==
    /\ pc = "filtered"
    /\ body' = remove_duplicate_images(body)
    /\ pc' = "done"
    /\ UNCHANGED <<prev, avail, markdown, run>>

Next ==
    \/ FinalizeClean
    \/ FinalizeValidateReferences
    \/ FinalizeFrameStructure
    \/ FinalizeRemoveDuplicates

Spec == Init /\ [][Next]_vars

(***************************************************************************)
(* _fix_image_paths applied once and then again to its own result          *)
(***************************************************************************)
InitPaths ==
    /\ pc = "paths0"
    /\ body \in SeqsUpTo(PathAlphabet, MaxPathBody)
    /\ prev = body
    /\ avail = {}
    /\ markdown = NoMarkdown
    /\ run = NoRun

FixImagePaths ==
    /\ pc = "paths0"
    /\ prev' = body
    /\ body' = _fix_image_paths(body)
    /\ pc' = "paths1"
    /\ UNCHANGED <<avail, markdown, run>>

FixImagePathsAgain ==
    /\ pc = "paths1"
    /\ prev' = body
    /\ body' = _fix_image_paths(body)
    /\ pc' = "paths2"
    /\ UNCHANGED <<avail, markdown, run>>

NextPaths == FixImagePaths \/ FixImagePathsAgain

SpecPaths == InitPaths /\ [][NextPaths]_vars

(***************************************************************************)
(* remove_duplicate_images and validate_and_fix_image_references, each     *)
(* applied to a body; prev is the body handed in                           *)
(***************************************************************************)
InitImages ==
    /\ pc = "images0"
    /\ body \in SeqsUpTo(ImageAlphabet, MaxImageBody)
    /\ prev = body
    /\ avail \in SUBSET ImageFiles
    /\ markdown = NoMarkdown
    /\ run = NoRun

RemoveDuplicateImages ==
    /\ pc = "images0"
    /\ body' = remove_duplicate_images(body)
    /\ pc' = "deduplicated"
    /\ UNCHANGED <<prev, avail, markdown, run>>

ValidateAndFixImageReferences ==
    /\ pc = "images0"
    /\ body' = validate_and_fix_image_references(body, avail)
    /\ pc' = "validated"
    /\ UNCHANGED <<prev, avail, markdown, run>>

NextImages == RemoveDuplicateImages \/ ValidateAndFixImageReferences

SpecImages == InitImages /\ [][NextImages]_vars

(***************************************************************************)
(* Stage 1: create_basic_latex_structure on both input forms               *)
(***************************************************************************)
InitStage1 ==
    /\ pc = "stage1"
    /\ markdown \in StructuredInputs \cup TextInputs
    /\ body = <<>>
    /\ prev = <<>>
    /\ avail = {}
    /\ run = NoRun

CreateBasicLatexStructure ==
    /\ pc = "stage1"
    /\ body' = create_basic_latex_structure(markdown)
    /\ pc' = "stage1_done"
    /\ UNCHANGED <<prev, avail, markdown, run>>

NextStage1 == CreateBasicLatexStructure

SpecStage1 == InitStage1 /\ [][NextStage1]_vars

(***************************************************************************)
(* Properties                                                              *)
(***************************************************************************)
\* the inclusion directives of a body, with or without options
IsDirective(t) == t.k = "IG"

DirectiveNames(c) == {Basename(c[i].path) : i \in {j \in DOMAIN c : IsDirective(c[j])}}

DirectivesOf(c, f) == {i \in DOMAIN c : IsDirective(c[i]) /\ Basename(c[i].path) = f}

\* C1: when _finalize_latex has returned, the body holds as many \begin{frame}
\* markers as \end{frame} markers (a raise is the other allowed outcome).
C1_FramesBalancedAfterFinalize ==
    pc = "done" => Count(body, "BF") = Count(body, "EF")

\* C2: when _finalize_latex has returned, the body holds as many '{' as '}'.
C2_BracesBalancedAfterFinalize ==
    pc = "done" => CountOpen(body) = CountClose(body)

\* C3: _fix_image_paths is a fixpoint: applied to its own result it changes
\* nothing (prev is the result of the first application).
C3_PathNormalizationFixpoint ==
    pc = "paths2" => body = prev

\* s is t with some elements left out, the others in their order
RECURSIVE IsSubsequence(_, _)
IsSubsequence(s, t) ==
    IF Len(s) = 0 THEN TRUE
    ELSE IF Len(t) = 0 THEN FALSE
    ELSE IF Head(s) = Head(t) THEN IsSubsequence(Tail(s), Tail(t))
    ELSE IsSubsequence(s, Tail(t))

\* the first line that holds a directive to file f
FirstLineOf(lines, f) ==
    LET at == {i \in DOMAIN lines : DirectivesOf(lines[i], f) # {}}
    IN lines[CHOOSE i \in at : \A j \in at : i <= j]

\* C4: remove_duplicate_images leaves, for every file name the input refers to,
\* exactly one directive referring to it, on the earliest line that did; the
\* lines it keeps are in their original order.
C4_FirstOccurrenceKept ==
    pc = "deduplicated" =>
        /\ IsSubsequence(SplitNL(body), SplitNL(prev))
        /\ \A f \in DirectiveNames(prev) :
              /\ Cardinality(DirectivesOf(body, f)) = 1
              /\ FirstLineOf(SplitNL(body), f) = FirstLineOf(SplitNL(prev), f)

\* C5: validate_and_fix_image_references removes exactly the directives whose
\* file name is not available: none of them is left, and every other token of
\* the body is kept as it was.
C5_ExactlyDanglingRemoved ==
    pc = "validated" =>
        LET Stays(t) == ~(IsDirective(t) /\ Basename(t.path) \notin avail)
        IN /\ \A f \in DirectiveNames(body) : f \in avail
           /\ body = SelectSeq(prev, Stays)

\* C6: when _finalize_latex has returned, every directive left in the body
\* refers to a file that exists.
C6_NoDanglingReferenceAfterFinalize ==
    pc = "done" => \A f \in DirectiveNames(body) : f \in avail

\* the frame markers of a body, in order
Markers(c) ==
    LET IsMarker(t) == t.k \in {"BF", "EF"}
    IN SelectSeq(c, IsMarker)

Alternates(m) ==
    /\ Len(m) % 2 = 0
    /\ \A i \in DOMAIN m : m[i].k = (IF i % 2 = 1 THEN "BF" ELSE "EF")

AllRecords(md) == md.form = "list" /\ \A i \in DOMAIN md.pages : md.pages[i].dict

\* the three lines of the Contents frame
ContentsFrameText == JoinNL(SubSeq(ContentsFrame, 1, 3))

StartsWith(c, p) == Len(c) >= Len(p) /\ SubSeq(c, 1, Len(p)) = p

\* C7: for a list of n page records the body has exactly n+1 \begin{frame} and
\* n+1 \end{frame} markers, the Contents frame first.
C7_OneFramePerRecord ==
    (pc = "stage1_done" /\ AllRecords(markdown)) =>
        /\ Count(body, "BF") = Len(markdown.pages) + 1
        /\ Count(body, "EF") = Len(markdown.pages) + 1
        /\ StartsWith(body, ContentsFrameText)

\* C8: in the body of create_basic_latex_structure the frame markers
\* alternate, open then close, and none is left open (both input forms).
C8_NoPartialFrame ==
    pc = "stage1_done" => Alternates(Markers(body))

\* C9: the body of create_basic_latex_structure begins with the Contents
\* frame holding \tableofcontents (both input forms).
C9_ContentsFrameFirst ==
    pc = "stage1_done" => StartsWith(body, ContentsFrameText)

\* the lines of the markdown text that are headings with a heading text
HeadingLines(text) ==
    LET lines == SplitNL(text)
    IN {Strip(lines[i]) : i \in {j \in DOMAIN lines :
            /\ Strip(lines[j]) # <<>>
            /\ Strip(lines[j])[1].k = "HASH"
            /\ Strip(LStripHash(Strip(lines[j]))) # <<>>}}

Escaped(line) == FixSymbols(_escape_latex_characters(Bold(line)))

\* C10: in the unstructured fallback every heading line yields a \section
\* with the heading text followed by a frame titled after it, and the heading
\* line itself is not a content line of the body.
C10_HeadingOpensFrame ==
    (pc = "stage1_done" /\ markdown.form = "text") =>
        LET out == SplitNL(body)
        IN \A h \in HeadingLines(markdown.text) :
              LET title == Escaped(Strip(LStripHash(h)))
              IN /\ \E i \in 1..(Len(out) - 1) :
                       /\ out[i] = <<Tok("SECTION"), Tok("LB")>> \o title \o <<Tok("RB")>>
                       /\ out[i + 1] = FrameOpen(title)
                 /\ \A i \in DOMAIN out : out[i] # Escaped(h)

(***************************************************************************)
(* Stage 2: parse_image_analysis_response.  The response of the            *)
(* classification capability is a sequence of tokens:                      *)
(*   LB {   RB }   LBK [   RBK ]   COMMA ,   NULL null   x prose           *)
(*   KEY "name":   STR "value"                                             *)
(*   STRB a string holding a bare backslash that is no JSON escape         *)
(*   STRBB the same string with the backslash doubled                      *)
(* White space between tokens is skipped by json.loads and by the \s* of   *)
(* the repair patterns alike, and is left out.                             *)
(***************************************************************************)
JKey(name) == [k |-> "KEY", opt |-> FALSE, path |-> <<name>>, n |-> 0]

JStr(v) == [k |-> "STR", opt |-> FALSE, path |-> <<v>>, n |-> 0]

\* index of the last token of kind k, 0 when there is none (str.rfind + 1)
RFind(s, k) ==
    IF Has(s, k) THEN CHOOSE i \in DOMAIN s : s[i].k = k /\ \A j \in (i+1)..Len(s) : s[j].k # k
    ELSE 0

\* JSON values: a scalar, or an object or array with its members in order
JScalar(t) == [t |-> t.k, s |-> IF t.path = <<>> THEN "" ELSE t.path[1], m |-> <<>>]

JObject(members) == [t |-> "obj", s |-> "", m |-> members]

JArray(members) == [t |-> "arr", s |-> "", m |-> members]

JFail == [ok |-> FALSE, next |-> 0, val |-> JObject(<<>>)]

JOk(next, val) == [ok |-> TRUE, next |-> next, val |-> val]

\* the JSON grammar as json.loads reads it: value, members of an object after
\* '{' or ',', elements of an array after '[' or ','
RECURSIVE ParseValue(_, _), ParseMembers(_, _, _), ParseElements(_, _, _)
ParseValue(s, i) ==
    IF i > Len(s) THEN JFail
    ELSE IF s[i].k \in {"STR", "STRBB", "NULL"} THEN JOk(i + 1, JScalar(s[i]))
    ELSE IF s[i].k = "LB" THEN
        IF i + 1 <= Len(s) /\ s[i + 1].k = "RB" THEN JOk(i + 2, JObject(<<>>))
        ELSE ParseMembers(s, i + 1, <<>>)
    ELSE IF s[i].k = "LBK" THEN
        IF i + 1 <= Len(s) /\ s[i + 1].k = "RBK" THEN JOk(i + 2, JArray(<<>>))
        ELSE ParseElements(s, i + 1, <<>>)
    ELSE JFail

ParseMembers(s, i, acc) ==
    IF i > Len(s) \/ s[i].k # "KEY" THEN JFail
    ELSE LET v == ParseValue(s, i + 1)
         IN IF ~v.ok \/ v.next > Len(s) THEN JFail
            ELSE LET members == Append(acc, [key |-> s[i].path[1], val |-> v.val])
                 IN IF s[v.next].k = "RB" THEN JOk(v.next + 1, JObject(members))
                    ELSE IF s[v.next].k = "COMMA" THEN ParseMembers(s, v.next + 1, members)
                    ELSE JFail

ParseElements(s, i, acc) ==
    LET v == ParseValue(s, i)
    IN IF ~v.ok \/ v.next > Len(s) THEN JFail
       ELSE LET members == Append(acc, [key |-> "", val |-> v.val])
            IN IF s[v.next].k = "RBK" THEN JOk(v.next + 1, JArray(members))
               ELSE IF s[v.next].k = "COMMA" THEN ParseElements(s, v.next + 1, members)
               ELSE JFail

\* json.loads: one value and nothing after it, else JSONDecodeError
JsonLoads(s) ==
    LET v == ParseValue(s, 1)
    IN IF v.ok /\ v.next = Len(s) + 1 THEN v ELSE JFail

\* json_str.replace('\\', '\\\\')
EscapeBackslashes(s) ==
    [i \in DOMAIN s |-> IF s[i].k = "STRB" THEN [s[i] EXCEPT !.k = "STRBB"] ELSE s[i]]

\* re.sub(r'}\s*{', '},{')
RECURSIVE InsertCommas(_)
InsertCommas(s) ==
    IF Len(s) < 2 THEN s
    ELSE IF s[1].k = "RB" /\ s[2].k = "LB"
         THEN <<s[1], Tok("COMMA"), s[2]>> \o InsertCommas(Tail(Tail(s)))
         ELSE <<s[1]>> \o InsertCommas(Tail(s))

\* re.sub(r',\s*}', '}') for closer "RB", re.sub(r',\s*]', ']') for "RBK"
StripTrailingCommas(s, closer) ==
    LET Kept(i) == ~(s[i].k = "COMMA" /\ i < Len(s) /\ s[i + 1].k = closer)
        RECURSIVE Scan(_)
        Scan(i) == IF i > Len(s) THEN <<>>
                   ELSE (IF Kept(i) THEN <<s[i]>> ELSE <<>>) \o Scan(i + 1)
    IN Scan(1)

RepairJson(s) ==
    StripTrailingCommas(StripTrailingCommas(InsertCommas(EscapeBackslashes(s)), "RB"), "RBK")

\* the text between the first '{' and the last '}'
JsonStr(response_content) ==
    SubSeq(response_content, Find(response_content, "LB"), RFind(response_content, "RB"))

\* json_start == -1 or json_end <= json_start: ValueError
ParseRaises(response_content) ==
    \/ Find(response_content, "LB") = 0
    \/ RFind(response_content, "RB") < Find(response_content, "LB")

\* {"image_decisions": {}}
EmptyPlan == JObject(<<[key |-> "image_decisions", val |-> JObject(<<>>)]>>)

\* the value parse_image_analysis_response returns when it does not raise
parse_image_analysis_response(response_content) ==
    LET first == JsonLoads(JsonStr(response_content))
        second == JsonLoads(RepairJson(JsonStr(response_content)))
    IN IF first.ok THEN first.val
       ELSE IF second.ok THEN second.val
       ELSE EmptyPlan

(***************************************************************************)
(* Responses of the classification capability: well-formed plans, each     *)
(* with one edit (cut short, a token lost, a token too many), and every     *)
(* short text                                                              *)
(***************************************************************************)
MaxJson == 3

Decision(filename, action) ==
    <<JKey(filename), Tok("LB"), JKey("action"), JStr(action), Tok("RB")>>

Conversion(filename) ==
    <<JKey(filename), Tok("LB"), JKey("action"), JStr("CONVERT_TO_LATEX"), Tok("COMMA"),
      JKey("latex_content"), Tok("STRB"), Tok("RB")>>

PlanText(decisions) ==
    <<Tok("LB"), JKey("image_decisions"), Tok("LB")>> \o decisions \o <<Tok("RB"), Tok("RB")>>

WellFormedResponses ==
    {PlanText(<<>>),
     PlanText(Decision("fig.png", "KEEP_AS_IMAGE")),
     PlanText(Conversion("fig.png")),
     PlanText(Decision("fig.png", "KEEP_AS_IMAGE") \o <<Tok("COMMA")>>
              \o Decision("bigfig.png", "REMOVE"))}

JsonAlphabet ==
    {Tok("LB"), Tok("RB"), Tok("COMMA"), Tok("x"), JKey("a"), JStr("v"), Tok("STRB"),
     Tok("LBK"), Tok("RBK")}

EditTokens == {Tok("LB"), Tok("RB"), Tok("COMMA"), Tok("x")}

Edits(s) ==
    {SubSeq(s, 1, n) : n \in 0..Len(s)}
    \cup {SubSeq(s, 1, i - 1) \o SubSeq(s, i + 1, Len(s)) : i \in DOMAIN s}
    \cup {SubSeq(s, 1, i) \o <<t>> \o SubSeq(s, i + 1, Len(s)) : i \in 0..Len(s), t \in EditTokens}

ParseInputs ==
    UNION {Edits(s) : s \in WellFormedResponses} \cup SeqsUpTo(JsonAlphabet, MaxJson)

(***************************************************************************)
(* parse_image_analysis_response applied to a response (body)              *)
(***************************************************************************)
InitParse ==
    /\ pc = "parse"
    /\ body \in ParseInputs
    /\ prev = body
    /\ avail = {}
    /\ markdown = NoMarkdown
    /\ run = NoRun

ParseImageAnalysisResponse ==
    /\ pc = "parse"
    /\ IF ParseRaises(body)
       THEN pc' = "parse_raised" /\ run' = run
       ELSE pc' = "parsed" /\ run' = [run EXCEPT !.plan = parse_image_analysis_response(body)]
    /\ UNCHANGED <<body, prev, avail, markdown>>

NextParse == ParseImageAnalysisResponse

SpecParse == InitParse /\ [][NextParse]_vars

\* the response cannot be parsed, before and after the repairs
Unparsable(response_content) ==
    /\ ~JsonLoads(JsonStr(response_content)).ok
    /\ ~JsonLoads(RepairJson(JsonStr(response_content))).ok

\* C11: parse_image_analysis_response never raises; for a response that
\* cannot be parsed, also one without an opening or a closing brace, it returns
\* the empty plan.
C11_ParseNeverRaises ==
    pc \in {"parsed", "parse_raised"} =>
        /\ pc = "parsed"
        /\ Unparsable(body) => run.plan = EmptyPlan

(***************************************************************************)
(* Stage 3: what the Placement Synthesizer takes from the plan             *)
(***************************************************************************)
\* dict.get(key, {}): the value of the last member named key
Member(v, key) ==
    LET at == {i \in DOMAIN v.m : v.m[i].key = key}
    IN IF v.t # "obj" \/ at = {} THEN JObject(<<>>)
       ELSE v.m[CHOOSE i \in at : \A j \in at : j <= i].val

\* decisions.items() and decision.get raise AttributeError unless the
\* decisions and every decision are objects
PlanMalformed(image_plan) ==
    LET decisions == Member(image_plan, "image_decisions")
    IN \/ decisions.t # "obj"
       \/ \E i \in DOMAIN decisions.m : decisions.m[i].val.t # "obj"

\* the file names that have an entry in the plan
PlanEntries(image_plan) ==
    LET decisions == Member(image_plan, "image_decisions")
    IN {decisions.m[i].key : i \in DOMAIN decisions.m}

ActionOf(image_plan, filename) ==
    Member(Member(Member(image_plan, "image_decisions"), filename), "action").s

\* bool(decision.get("latex_content"))
HasLatexContent(image_plan, filename) ==
    LET v == Member(Member(Member(image_plan, "image_decisions"), filename), "latex_content")
    IN \/ v.t = "STRBB"
       \/ v.t = "STR" /\ v.s # ""
       \/ v.t \in {"obj", "arr"} /\ v.m # <<>>

\* the page (0-based, as the extraction numbers it) an image file was taken from
PageOf(filename) == IF filename = "page_2_img_1.png" THEN 2 ELSE 1

\* extract_page_structure: the images of each page record, none for plain text
PageImages(md, images) ==
    IF md.form # "list" THEN {}
    ELSE {f \in images : PageOf(f) + 1 \in DOMAIN md.pages /\ md.pages[PageOf(f) + 1].dict}

\* prepare_image_placement_data: 'images_to_place' and 'latex_conversions'
prepare_image_placement_data(md, images, image_plan) ==
    [images_to_place |->
        {f \in PlanEntries(image_plan) :
            ActionOf(image_plan, f) = "KEEP_AS_IMAGE" /\ f \in PageImages(md, images)},
     latex_conversions |->
        {f \in PlanEntries(image_plan) :
            ActionOf(image_plan, f) = "CONVERT_TO_LATEX" /\ HasLatexContent(image_plan, f)}]

\* a selection that would place every extracted image the plan does not remove
get_images_not_removed(image_plan, images) ==
    {f \in images : ActionOf(image_plan, f) # "REMOVE"}

get_images_to_place(image_plan, images) ==
    {f \in PlanEntries(image_plan) : ActionOf(image_plan, f) = "KEEP_AS_IMAGE" /\ f \in images}

\* GeminiService.generate_latex sends the bytes of the images that exist
SubmittedImages(images_to_place, existing) == images_to_place \cap existing

(***************************************************************************)
(* One conversion: main and convert_pdf_to_latex (src/main.py), with       *)
(* PDFToLatexConverter.convert, generate_latex_document and                *)
(* compile_latex_to_pdf.  pc is the position in convert_pdf_to_latex; the  *)
(* outcome of every call to the outside (extraction, the two capability    *)
(* calls, the file system, the render subprocess) is chosen by the         *)
(* environment.                                                            *)
(***************************************************************************)
MaxResponse == 4

Page == [dict |-> TRUE, toc |-> "absent", title |-> <<>>, text |-> <<Tok("x")>>]

ConvertMarkdowns ==
    {[form |-> "text", pages |-> <<>>, text |-> <<Tok("x")>>],
     [form |-> "list", pages |-> <<Page, Page, Page>>, text |-> <<>>]}

ConvertImages == {"page_1_img_1.png", "page_2_img_1.png"}

\* responses of the classification capability: prose, plans, a plan cut
\* short, a plan whose decisions are a list
ClassifyResponses ==
    {<<Tok("x")>>,
     PlanText(<<>>),
     PlanText(Decision("page_1_img_1.png", "KEEP_AS_IMAGE")),
     PlanText(Decision("page_1_img_1.png", "KEEP_AS_IMAGE") \o <<Tok("COMMA")>>
              \o Decision("page_2_img_1.png", "REMOVE")),
     PlanText(Conversion("page_2_img_1.png")),
     SubSeq(PlanText(Decision("page_1_img_1.png", "KEEP_AS_IMAGE")), 1, 9),
     <<Tok("LB"), JKey("image_decisions"), Tok("LBK"), Tok("RBK"), Tok("RB")>>}

\* responses of the synthesis capability: every short text of frame markers,
\* line ends and \centering, and a frame that includes an image
SynthAlphabet == {Tok("BF"), Tok("EF"), Tok("NL"), Tok("CEN")}

ImageFrame(filename) ==
    <<Tok("BF"), Tok("NL"), IG(TRUE, <<"images", filename>>), Tok("NL"), Tok("EF")>>

SynthResponses ==
    SeqsUpTo(SynthAlphabet, MaxResponse) \cup {ImageFrame(f) : f \in ConvertImages}

Logged(call) == [run EXCEPT !.log = Append(@, call)]

\* the call logged last raised: the log says so, error names the call
Raise(r, call) == [r EXCEPT !.log = Append(@, "raise"), !.error = call]

Called(call) == \E i \in DOMAIN run.log : run.log[i] = call

Calls(call) == Cardinality({i \in DOMAIN run.log : run.log[i] = call})

InitConvert ==
    /\ pc = "main"
    /\ body = <<>>
    /\ prev = <<>>
    /\ avail = {}
    /\ markdown = NoMarkdown
    /\ run = NoRun

\* main.py 33-35: the input file must exist
ValidateInput ==
    /\ pc = "main"
    /\ \E pdf_exists \in BOOLEAN :
          IF pdf_exists THEN pc' = "check_latex" /\ run' = run
          ELSE pc' = "returned" /\ run' = [run EXCEPT !.result = "None"]
    /\ UNCHANGED <<body, prev, avail, markdown>>

\* main.py 37-40
CheckLatexInstallation ==
    /\ pc = "check_latex"
    /\ \E installed \in BOOLEAN :
          IF installed THEN pc' = "setup" /\ run' = Logged("check_latex")
          ELSE /\ pc' = "returned"
               /\ run' = [run EXCEPT !.log = @ \o <<"check_latex", "missing">>,
                                     !.result = "None"]
    /\ UNCHANGED <<body, prev, avail, markdown>>

\* main.py 42-48: a temporary directory, or the one given with --output-dir
SetupOutputDir ==
    /\ pc = "setup"
    /\ \E given \in BOOLEAN : run' = [run EXCEPT !.cleanup_temp = ~given, !.dir = "exists"]
    /\ pc' = "extract"
    /\ UNCHANGED <<body, prev, avail, markdown>>

\* main.py 52: extract_pdf_content returns the extracted data or raises; it
\* may raise after it has saved image files (extractor.py 43-59, 62-75)
ExtractPdfContent ==
    /\ pc = "extract"
    /\ \/ /\ pc' = "except"
          /\ run' = Raise(Logged("extract"), "extract")
          /\ \E written \in SUBSET ConvertImages : avail' = written
          /\ UNCHANGED markdown
       \/ \E md \in ConvertMarkdowns, images \in SUBSET ConvertImages :
             \E existing \in SUBSET images :
                /\ markdown' = md
                /\ avail' = existing
                /\ run' = [Logged("extract") EXCEPT !.extracted = TRUE, !.images = images]
                /\ pc' = "stage1"
    /\ UNCHANGED <<body, prev>>

\* converter.py 51-52
ConvertStage1 ==
    /\ pc = "stage1"
    /\ body' = create_basic_latex_structure(markdown)
    /\ run' = Logged("stage1")
    /\ pc' = "stage2"
    /\ UNCHANGED <<prev, avail, markdown>>

\* converter.py 56: analyze_all_images.  No image, no call; else the call
\* raises APIError or returns a response, which is parsed
AnalyzeAllImages ==
    /\ pc = "stage2"
    /\ IF run.images = {}
       THEN pc' = "stage3" /\ run' = [run EXCEPT !.plan = EmptyPlan]
       ELSE \/ /\ pc' = "except"
               /\ run' = Raise(Logged("classify"), "classify")
            \/ \E response \in ClassifyResponses :
                  IF ParseRaises(response)
                  THEN /\ pc' = "except"
                       /\ run' = Raise([run EXCEPT !.log = @ \o <<"classify", "parse">>], "parse")
                  ELSE /\ pc' = "stage3"
                       /\ run' = [run EXCEPT
                                     !.log = @ \o <<"classify", "parse">>,
                                     !.plan = parse_image_analysis_response(response)]
    /\ UNCHANGED <<body, prev, avail, markdown>>

\* converter.py 60: place_images_in_latex.  The plan is read, the synthesis
\* capability is called once, its response is cleaned and frame-filtered
PlaceImagesInLatex ==
    /\ pc = "stage3"
    /\ IF PlanMalformed(run.plan)
       THEN /\ pc' = "except"
            /\ run' = Raise(Logged("prepare"), "prepare")
            /\ body' = body
       ELSE LET data == prepare_image_placement_data(markdown, run.images, run.plan)
                images_to_place == get_images_to_place(run.plan, run.images)
                sent == [run EXCEPT
                            !.log = @ \o <<"prepare", "synthesize">>,
                            !.placed = data.images_to_place,
                            !.conversions = data.latex_conversions,
                            !.submitted = SubmittedImages(images_to_place, avail)]
            IN \/ /\ pc' = "except"
                  /\ run' = Raise(sent, "synthesize")
                  /\ body' = body
               \/ \E response \in SynthResponses :
                     LET handed == [sent EXCEPT !.log = Append(@, "clean"),
                                                !.cleaned = Append(@, response)]
                     IN IF CleanRaises(response)
                        THEN /\ pc' = "except"
                             /\ run' = Raise(handed, "clean")
                             /\ body' = response
                        ELSE /\ pc' = "finalize_latex"
                             /\ run' = [handed EXCEPT !.log = Append(@, "frame")]
                             /\ body' = validate_frame_structure(clean_latex_response(response))
    /\ UNCHANGED <<prev, avail, markdown>>

\* converter.py 63: _finalize_latex, the four passes in their order
FinalizeLatex ==
    /\ pc = "finalize_latex"
    /\ prev' = body
    /\ LET handed == [run EXCEPT !.log = Append(@, "clean"), !.cleaned = Append(@, body)]
       IN IF CleanRaises(body)
          THEN /\ pc' = "except"
               /\ run' = Raise(handed, "clean")
               /\ body' = body
          ELSE /\ pc' = "generate"
               /\ run' = [handed EXCEPT !.log = @ \o <<"references", "frame", "duplicates">>]
               /\ body' = remove_duplicate_images(validate_frame_structure(
                             validate_and_fix_image_references(clean_latex_response(body), avail)))
    /\ UNCHANGED <<avail, markdown>>

\* main.py 58: generate_latex_document copies the images, copies the theme
\* and writes presentation.tex; a file-system error stops it part-way
GenerateLatexDocument ==
    /\ pc = "generate"
    /\ \/ \E written \in {{}, {"images"}, {"images", "theme"}} :
             /\ run' = [Raise(Logged("generate"), "generate") EXCEPT !.files = written]
             /\ pc' = "except"
       \/ /\ run' = [Logged("generate") EXCEPT !.files = {"images", "theme", "presentation.tex"}]
          /\ pc' = "compile"
    /\ UNCHANGED <<body, prev, avail, markdown>>

\* a render step that would take a timeout for a finished render
CompileLatexToPdfIgnoringTimeout ==
    /\ pc = "compile"
    /\ \E outcome \in {"pdf", "no_pdf", "timeout", "missing"} :
          LET started == Logged("render")
          IN CASE outcome = "pdf" ->
                    /\ run' = [started EXCEPT !.files = @ \cup {"presentation.pdf", "aux"}]
                    /\ pc' = "compiled"
               [] outcome = "timeout" ->
                    /\ run' = [started EXCEPT !.log = Append(@, outcome),
                                              !.files = @ \cup {"aux"}]
                    /\ pc' = "compiled"
               [] outcome = "no_pdf" ->
                    /\ run' = [started EXCEPT !.log = Append(@, outcome),
                                              !.files = @ \cup {"aux"}, !.result = "None"]
                    /\ pc' = "finally"
               [] outcome = "missing" ->
                    /\ run' = [started EXCEPT !.log = Append(@, outcome), !.result = "None"]
                    /\ pc' = "finally"
    /\ UNCHANGED <<body, prev, avail, markdown>>

\* main.py 61-72: compile_latex_to_pdf starts pdflatex once.  It returns the
\* path of the PDF, or None when no PDF was written, on a timeout and when
\* the executable is missing (the log names which)
CompileLatexToPdf ==
    /\ pc = "compile"
    /\ \E outcome \in {"pdf", "no_pdf", "timeout", "missing"} :
          LET started == Logged("render")
          IN CASE outcome = "pdf" ->
                    /\ run' = [started EXCEPT !.files = @ \cup {"presentation.pdf", "aux"}]
                    /\ pc' = "compiled"
               [] outcome \in {"no_pdf", "timeout"} ->
                    /\ run' = [started EXCEPT !.log = Append(@, outcome),
                                              !.files = @ \cup {"aux"}, !.result = "None"]
                    /\ pc' = "finally"
               [] outcome = "missing" ->
                    /\ run' = [started EXCEPT !.log = Append(@, outcome), !.result = "None"]
                    /\ pc' = "finally"
    /\ UNCHANGED <<body, prev, avail, markdown>>

\* main.py 63-69: cleanup_auxiliary_files, return pdf_path
ReturnPdf ==
    /\ pc = "compiled"
    /\ run' = [Logged("cleanup_auxiliary") EXCEPT !.files = @ \ {"aux"}, !.result = "pdf"]
    /\ pc' = "finally"
    /\ UNCHANGED <<body, prev, avail, markdown>>

\* a handler that would retry a failed synthesis call once instead of giving up
HandleExceptionRetrying ==
    /\ pc = "except"
    /\ IF run.error = "synthesize" /\ Calls("synthesize") < 2
       THEN pc' = "stage3" /\ run' = run
       ELSE pc' = "finally" /\ run' = [run EXCEPT !.result = "None"]
    /\ UNCHANGED <<body, prev, avail, markdown>>

\* main.py 74-76: except Exception: return None
HandleException ==
    /\ pc = "except"
    /\ run' = [run EXCEPT !.result = "None"]
    /\ pc' = "finally"
    /\ UNCHANGED <<body, prev, avail, markdown>>

\* main.py 77-83: the finally block.  cleanup_temp_files(extracted_data)
\* reads a local that is unbound when the extraction raised; otherwise the
\* extracted image files are removed, and the directory if it is temporary
Finally ==
    /\ pc = "finally"
    /\ IF ~run.extracted
       THEN /\ run' = [run EXCEPT !.uncaught = TRUE, !.result = "raised"]
            /\ avail' = avail
       ELSE /\ avail' = avail \ run.images
            /\ run' = IF run.cleanup_temp
                      THEN [run EXCEPT !.files = {}, !.dir = "removed"]
                      ELSE run
    /\ pc' = "returned"
    /\ UNCHANGED <<body, prev, markdown>>

\* main.py 97-108: copy to --output-pdf if asked, exit code
MainExit ==
    /\ pc = "returned"
    /\ IF run.uncaught THEN run' = [run EXCEPT !.exit = 1]
       ELSE IF run.result = "pdf"
       THEN \E output_pdf \in BOOLEAN :
               IF output_pdf /\ "presentation.pdf" \notin run.files
               THEN run' = [run EXCEPT !.uncaught = TRUE, !.exit = 1]
               ELSE run' = [run EXCEPT !.exit = 0]
       ELSE run' = [run EXCEPT !.exit = 1]
    /\ pc' = "exited"
    /\ UNCHANGED <<body, prev, avail, markdown>>

NextConvert ==
    \/ ValidateInput
    \/ CheckLatexInstallation
    \/ SetupOutputDir
    \/ ExtractPdfContent
    \/ ConvertStage1
    \/ AnalyzeAllImages
    \/ PlaceImagesInLatex
    \/ FinalizeLatex
    \/ GenerateLatexDocument
    \/ CompileLatexToPdf
    \/ ReturnPdf
    \/ HandleException
    \/ Finally
    \/ MainExit

SpecConvert == InitConvert /\ [][NextConvert]_vars

(***************************************************************************)
(* Properties of a conversion                                              *)
(***************************************************************************)
\* the call named raised: the log has it followed by "raise"
Failed(call) ==
    \E i \in DOMAIN run.log : run.log[i] = call /\ i < Len(run.log) /\ run.log[i + 1] = "raise"

\* C12: when the classification call raises, the conversion goes on with the
\* empty plan: the synthesis capability is still called, no image is placed or
\* submitted, and the failure is not what the conversion reports.
C12_ClassificationFailureFallsBack ==
    (pc = "exited" /\ Failed("classify")) =>
        /\ Called("synthesize")
        /\ run.plan = EmptyPlan
        /\ run.submitted = {}
        /\ run.error # "classify"

\* the calls logged after the first call named
After(call) ==
    LET at == {i \in DOMAIN run.log : run.log[i] = call}
    IN IF at = {} THEN <<>>
       ELSE SubSeq(run.log, (CHOOSE i \in at : \A j \in at : i <= j) + 1, Len(run.log))

\* C13: when the synthesis call raises, it was called exactly once and is not
\* retried, nothing runs after it (no repair pass, no document generation, no
\* render), convert_pdf_to_latex returns None and the process exits non-zero.
C13_SynthesisFailureAborts ==
    Failed("synthesize") =>
        /\ Calls("synthesize") = 1
        /\ After("synthesize") = <<"raise">>
        /\ pc \in {"except", "finally", "returned", "exited"}
        /\ pc \in {"returned", "exited"} => run.result = "None" /\ ~run.uncaught
        /\ pc = "exited" => run.exit = 1

\* the synthesis call raised and the process has exited
C13_Witness == pc = "exited" /\ Failed("synthesize") /\ run.submitted # {}

\* C14: whenever a body handed to clean_latex_response has unequal counts of
\* \begin{frame} and \end{frame} after the syntax repairs, clean raises: it is
\* the last body cleaned, no pass, document generation or render runs after
\* it, and convert_pdf_to_latex returns None.
C14_FrameMismatchAborts ==
    \A i \in DOMAIN run.cleaned :
        FrameMismatch(SyntaxRepaired(run.cleaned[i])) =>
            /\ i = Len(run.cleaned)
            /\ After("raise") = <<>> /\ run.error = "clean"
            /\ SubSeq(run.log, Len(run.log) - 1, Len(run.log)) = <<"clean", "raise">>
            /\ ~Called("generate") /\ ~Called("render")
            /\ pc \in {"except", "finally", "returned", "exited"}
            /\ pc \in {"returned", "exited"} => run.result = "None" /\ ~run.uncaught

\* the second clean, the one of _finalize_latex, raised on a frame mismatch
C14_Witness ==
    /\ pc = "exited"
    /\ Len(run.cleaned) = 2
    /\ FrameMismatch(SyntaxRepaired(run.cleaned[2]))

\* the images of the conversion that have no entry in the plan
Unplanned == run.images \ PlanEntries(run.plan)

\* C17: once the synthesis capability has been called, an image without an
\* entry in the plan is not among the images to place, not among the markup
\* conversions, and its bytes were not submitted; with an empty plan nothing
\* is placed, converted or submitted.
C17_UnplannedImagesDiscarded ==
    Called("synthesize") =>
        /\ \A f \in Unplanned :
              f \notin run.placed /\ f \notin run.conversions /\ f \notin run.submitted
        /\ run.plan = EmptyPlan =>
              run.placed = {} /\ run.conversions = {} /\ run.submitted = {}

\* one image was kept and submitted while another one had no entry in the plan
C17_Witness ==
    /\ Called("synthesize")
    /\ Unplanned # {}
    /\ run.submitted # {}
    /\ run.placed # {}

\* the conversion has returned without a PDF after its output directory existed
FailedAfterSetup ==
    pc \in {"returned", "exited"} /\ run.dir # "none" /\ run.result # "pdf"

\* C18: when a conversion fails after the output directory exists, no output
\* file (presentation.tex, images, theme files, PDF, auxiliary files) is left
\* in it, for a temporary directory and for one given with --output-dir.
C18_NoPartialOutput ==
    FailedAfterSetup => run.files = {}

\* the render timed out or the typesetting executable was missing when started
RenderFailed ==
    \E i \in DOMAIN run.log :
        /\ run.log[i] = "render"
        /\ i < Len(run.log)
        /\ run.log[i + 1] \in {"timeout", "missing"}

\* the executable was found missing by check_latex_installation
LatexMissing == Called("check_latex") /\ After("check_latex") = <<"missing">>

\* C19: when the render times out or the executable is missing, the render
\* subprocess was started at most once and nothing is retried,
\* compile_latex_to_pdf and convert_pdf_to_latex return None, and the process
\* exits non-zero.
C19_RenderFailureNotRetried ==
    /\ Calls("render") <= 1
    /\ RenderFailed =>
          /\ After("render") \in {<<"timeout">>, <<"missing">>}
          /\ pc \in {"finally", "returned", "exited"}
          /\ run.result = "None" /\ ~run.uncaught
          /\ pc = "exited" => run.exit = 1
    /\ LatexMissing =>
          /\ ~Called("render")
          /\ run.result = "None" /\ ~run.uncaught
          /\ pc = "exited" => run.exit = 1

\* the render timed out and the process has exited
C19_Witness == pc = "exited" /\ Called("render") /\ After("render") = <<"timeout">>

\* C20: whatever step of the conversion raised, extraction included,
\* convert_pdf_to_latex returns None and lets no exception out.
C20_FailureReturnsNone ==
    (pc = "returned" /\ run.error # "") => (run.result = "None" /\ ~run.uncaught)


(***************************************************************************)
(* clean_latex_response applied to a body and then again to its own        *)
(* result, as place_images_in_latex and _finalize_latex do in turn         *)
(***************************************************************************)
MaxCleanBody == 3

CleanAlphabet ==
    {Tok("x"), Tok("AMP"), Tok("NL"), Tok("BF"), Tok("EF"), Tok("CEN"), Tok("DOLLAR"),
     Tok("ENDASH"), IG(TRUE, <<"page_1_img_1.png">>), IG(TRUE, <<"images", "fig.png">>)}

InitClean ==
    /\ pc = "clean0"
    /\ body \in SeqsUpTo(CleanAlphabet, MaxCleanBody)
    /\ prev = body
    /\ avail = {}
    /\ markdown = NoMarkdown
    /\ run = NoRun

\* stage3_llm_placement.py 29: the first clean of the synthesized body
CleanLatexResponse ==
    /\ pc = "clean0"
    /\ prev' = body
    /\ IF CleanRaises(body)
       THEN pc' = "clean_raised" /\ body' = body
       ELSE pc' = "clean1" /\ body' = clean_latex_response(body)
    /\ UNCHANGED <<avail, markdown, run>>

\* converter.py 71-72: the second clean, of the result of the first
CleanLatexResponseAgain ==
    /\ pc = "clean1"
    /\ prev' = body
    /\ IF CleanRaises(body)
       THEN pc' = "clean_raised_again" /\ body' = body
       ELSE pc' = "clean2" /\ body' = clean_latex_response(body)
    /\ UNCHANGED <<avail, markdown, run>>

NextClean == CleanLatexResponse \/ CleanLatexResponseAgain

SpecClean == InitClean /\ [][NextClean]_vars

\* C15: clean_latex_response is idempotent: when it returns on a body, it
\* returns on its own result as well and leaves that result unchanged.
C15_CleanIdempotent ==
    /\ pc # "clean_raised_again"
    /\ pc = "clean2" => body = prev


(***************************************************************************)
(* the two final passes of _finalize_latex in either order; prev is the    *)
(* body handed in                                                          *)
(***************************************************************************)
InitOrder ==
    /\ pc = "order0"
    /\ body \in SeqsUpTo(ImageAlphabet, MaxImageBody)
    /\ prev = body
    /\ avail \in SUBSET ImageFiles
    /\ markdown = NoMarkdown
    /\ run = NoRun

\* converter.py 75-79: validate_and_fix_image_references comes first
OrderValidateFirst ==
    /\ pc = "order0"
    /\ body' = validate_and_fix_image_references(body, avail)
    /\ pc' = "order_v"
    /\ UNCHANGED <<prev, avail, markdown, run>>

\* converter.py 91: remove_duplicate_images comes last
OrderDeduplicateLast ==
    /\ pc = "order_v"
    /\ body' = remove_duplicate_images(body)
    /\ pc' = "order_vd"
    /\ UNCHANGED <<prev, avail, markdown, run>>

\* the same two calls the other way round
OrderDeduplicateFirst ==
    /\ pc = "order0"
    /\ body' = remove_duplicate_images(body)
    /\ pc' = "order_d"
    /\ UNCHANGED <<prev, avail, markdown, run>>

OrderValidateLast ==
    /\ pc = "order_d"
    /\ body' = validate_and_fix_image_references(body, avail)
    /\ pc' = "order_dv"
    /\ UNCHANGED <<prev, avail, markdown, run>>

NextOrder ==
    \/ OrderValidateFirst
    \/ OrderDeduplicateLast
    \/ OrderDeduplicateFirst
    \/ OrderValidateLast

SpecOrder == InitOrder /\ [][NextOrder]_vars

\* C16: duplicate removal and dangling-reference removal commute: the body
\* reached by one order of the two passes is the body the other order gives.
C16_FinalPassesCommute ==
    /\ pc = "order_vd" =>
          body = validate_and_fix_image_references(remove_duplicate_images(prev), avail)
    /\ pc = "order_dv" =>
          body = remove_duplicate_images(validate_and_fix_image_references(prev, avail))


\* C21: whenever convert_pdf_to_latex has returned a path, the rendered file
\* at that path exists, with a given output directory and with a temporary one.
C21_ReturnedPdfExists ==
    (pc = "returned" /\ run.result = "pdf") => "presentation.pdf" \in run.files


\* C28: whenever convert_pdf_to_latex has terminated, by success or by a
\* failure at any step, extraction included, no image file that the
\* extraction step wrote for this run is left on disk.
C28_TempImagesDestroyed ==
    (pc \in {"returned", "exited"} /\ Called("extract")) => avail = {}


\* C30: in every synthesis request the file names listed in the prompt as
\* images to place are exactly the file names whose bytes are attached.
C30_PromptMatchesAttachments ==
    Called("synthesize") => run.placed = run.submitted


(***************************************************************************)
(* Stage 1 as PDFToLatexConverter.convert runs it: the basic body and the  *)
(* page structure of the same extracted data.  A PageStructureEntry is     *)
(* [page_number, title, images]; run.structure is the list of them.        *)
(***************************************************************************)
\* extract_page_structure, the loop over enumerate(markdown_content); i is
\* the 1-based position in the list (i + 1 of the code)
RECURSIVE StructureScan(_, _, _)
StructureScan(pages, i, images) ==
    IF i > Len(pages) THEN <<>>
    ELSE LET page_info == [page_number |-> i,
                           title |-> PageTitle(pages[i], i),
                           images |-> {f \in images : PageOf(f) + 1 = i}]
         IN (IF pages[i].dict THEN <<page_info>> ELSE <<>>)
            \o StructureScan(pages, i + 1, images)

extract_page_structure(md, images) ==
    IF md.form = "list" THEN StructureScan(md.pages, 1, images) ELSE <<>>

InitStructure ==
    /\ pc = "convert"
    /\ markdown \in StructuredInputs
    /\ body = <<>>
    /\ prev = <<>>
    /\ avail = {}
    /\ \E images \in SUBSET ConvertImages : run = [NoRun EXCEPT !.images = images]

\* converter.py 51: basic_latex
ConvertBasicLatex ==
    /\ pc = "convert"
    /\ body' = create_basic_latex_structure(markdown)
    /\ pc' = "basic_latex"
    /\ UNCHANGED <<prev, avail, markdown, run>>

\* converter.py 52: page_structure
ConvertPageStructure ==
    /\ pc = "basic_latex"
    /\ run' = [run EXCEPT !.structure = extract_page_structure(markdown, run.images)]
    /\ pc' = "page_structure"
    /\ UNCHANGED <<body, prev, avail, markdown>>

NextStructure == ConvertBasicLatex \/ ConvertPageStructure

SpecStructure == InitStructure /\ [][NextStructure]_vars

\* the titles of the frames of a basic body, in order, the Contents frame left out
FrameTitles(c) ==
    LET lines == SplitNL(c)
        opens == SelectSeq(lines, LAMBDA l : Len(l) >= 3 /\ l[1].k = "BF" /\ l[2].k = "LB")
    IN [k \in 1..(Len(opens) - 1) |-> SubSeq(opens[k + 1], 3, Len(opens[k + 1]) - 1)]

\* C29: for every record of a structured input, the title of its
\* PageStructureEntry is the title of the frame emitted for that record,
\* with a table-of-contents hint and with the default "Slide n", also
\* when the list holds entries that are not records.
C29_StructureTitlesMatchFrames ==
    pc = "page_structure" =>
        /\ Len(run.structure) = Len(FrameTitles(body))
        /\ \A k \in DOMAIN run.structure : run.structure[k].title = FrameTitles(body)[k]


(***************************************************************************)
(* prepare_image_placement_data applied to a page structure and a plan.    *)
(* run.structure is the page structure, run.entries the resulting          *)
(* images_to_place list.                                                   *)
(***************************************************************************)
\* the inner loops of lines 49-57 for one file name: one entry for every
\* page that lists it; break leaves the loop over the images of one page
RECURSIVE PlaceScan(_, _)
PlaceScan(page_structure, filename) ==
    IF page_structure = <<>> THEN <<>>
    ELSE LET page == Head(page_structure)
         IN (IF filename \in page.images
             THEN <<[filename |-> filename, page |-> page.page_number,
                     page_title |-> page.title]>>
             ELSE <<>>)
            \o PlaceScan(Tail(page_structure), filename)

\* the loop over decisions.items(), from member i on
RECURSIVE DecisionScan(_, _, _)
DecisionScan(page_structure, image_plan, i) ==
    LET decisions == Member(image_plan, "image_decisions")
    IN IF i > Len(decisions.m) THEN <<>>
       ELSE (IF ActionOf(image_plan, decisions.m[i].key) = "KEEP_AS_IMAGE"
             THEN PlaceScan(page_structure, decisions.m[i].key)
             ELSE <<>>)
            \o DecisionScan(page_structure, image_plan, i + 1)

images_to_place(page_structure, image_plan) == DecisionScan(page_structure, image_plan, 1)

\* page structures: up to MaxPages entries, numbered in order, each listing
\* some of the image files
PageStructures ==
    UNION {{[i \in 1..n |-> [page_number |-> i, title |-> SlideTitle(i), images |-> imgs[i]]] :
               imgs \in [1..n -> SUBSET ConvertImages]} : n \in 0..MaxPages}

PlacementPlans ==
    {parse_image_analysis_response(r) : r \in {r \in ClassifyResponses : ~ParseRaises(r)}}

InitPlacement ==
    /\ pc = "prepare"
    /\ body = <<>>
    /\ prev = <<>>
    /\ avail = {}
    /\ markdown = NoMarkdown
    /\ \E page_structure \in PageStructures, image_plan \in PlacementPlans :
          /\ ~PlanMalformed(image_plan)
          /\ run = [NoRun EXCEPT !.structure = page_structure, !.plan = image_plan]

PrepareImagePlacementData ==
    /\ pc = "prepare"
    /\ run' = [run EXCEPT !.entries = images_to_place(run.structure, run.plan)]
    /\ pc' = "prepared"
    /\ UNCHANGED <<body, prev, avail, markdown>>

NextPlacement == PrepareImagePlacementData

SpecPlacement == InitPlacement /\ [][NextPlacement]_vars

\* the pages of a page structure that list a file name
PagesListing(page_structure, filename) ==
    {i \in DOMAIN page_structure : filename \in page_structure[i].images}

\* C27: every KEEP_AS_IMAGE decision adds at most one entry to
\* images_to_place, and that entry carries the page number and title of the
\* first page that lists the file name, also when several pages list it.
C27_OneEntryPerKeptImage ==
    pc = "prepared" =>
        \A f \in PlanEntries(run.plan) :
            LET mine == {k \in DOMAIN run.entries : run.entries[k].filename = f}
                pages == PagesListing(run.structure, f)
            IN /\ Cardinality(mine) <= 1
               /\ \A k \in mine :
                     LET first == CHOOSE i \in pages : \A j \in pages : i <= j
                     IN /\ run.entries[k].page = run.structure[first].page_number
                        /\ run.entries[k].page_title = run.structure[first].title


\* C22: after _fix_image_paths every inclusion directive whose file name
\* follows the extraction naming pattern has the path images/<file name>,
\* whatever the shape of the path handed in, and no path begins with
\* images/images/.
C22_PatternPathsCanonical ==
    pc = "paths1" =>
        \A i \in DOMAIN body :
            IsRef(body[i]) =>
                /\ IsPattern(Basename(body[i].path)) =>
                      body[i].path = <<"images", Basename(body[i].path)>>
                /\ ~(Len(body[i].path) >= 3 /\ SubSeq(body[i].path, 1, 2) = <<"images", "images">>)


(***************************************************************************)
(* _fix_latex_syntax applied to a body; prev is the body handed in         *)
(***************************************************************************)
MaxSyntaxBody == 4

SyntaxAlphabet == {Tok("x"), Tok("AMP"), Tok("BSL"), Tok("DOLLAR"), Tok("BF")}

_fix_latex_syntax(c) == ItemizeLists(EscapeAmpersands(c))

InitSyntax ==
    /\ pc = "syntax0"
    /\ body \in SeqsUpTo(SyntaxAlphabet, MaxSyntaxBody)
    /\ prev = body
    /\ avail = {}
    /\ markdown = NoMarkdown
    /\ run = NoRun

FixLatexSyntax ==
    /\ pc = "syntax0"
    /\ IF FrameMismatch(_fix_latex_syntax(body))
       THEN pc' = "syntax_raised" /\ body' = body
       ELSE pc' = "syntax1" /\ body' = _fix_latex_syntax(body)
    /\ UNCHANGED <<prev, avail, markdown, run>>

NextSyntax == FixLatexSyntax

SpecSyntax == InitSyntax /\ [][NextSyntax]_vars

\* the ampersand at position i of c lies inside a $...$ span
InMath(c, i) == Cardinality({j \in 1..(i - 1) : c[j].k = "DOLLAR"}) % 2 = 1

\* the ampersand at position i of c is written \&
AmpEscaped(c, i) == i > 1 /\ c[i - 1].k = "BSL"

\* c with a backslash put before every bare ampersand outside math
RECURSIVE EscapeBare(_, _)
EscapeBare(c, i) ==
    IF i > Len(c) THEN <<>>
    ELSE (IF c[i].k = "AMP" /\ ~AmpEscaped(c, i) /\ ~InMath(c, i)
          THEN <<Tok("BSL"), c[i]>> ELSE <<c[i]>>)
         \o EscapeBare(c, i + 1)

\* C23: _fix_latex_syntax escapes exactly the bare ampersands outside math
\* spans; an escaped ampersand and an ampersand inside $...$ stay as they
\* are, so no ampersand is preceded by two backslashes it did not have.
C23_ExactlyBareAmpersandsEscaped ==
    pc = "syntax1" => body = EscapeBare(prev, 1)


(***************************************************************************)
(* validate_frame_structure applied to a body; prev is the body handed in  *)
(***************************************************************************)
MaxFrameBody == 4

FrameAlphabet == {Tok("BF"), Tok("EF"), Tok("NL"), Tok("CEN"), Tok("x")}

InitFrames ==
    /\ pc = "frames0"
    /\ body \in SeqsUpTo(FrameAlphabet, MaxFrameBody)
    /\ prev = body
    /\ avail = {}
    /\ markdown = NoMarkdown
    /\ run = NoRun

ValidateFrameStructure ==
    /\ pc = "frames0"
    /\ body' = validate_frame_structure(body)
    /\ pc' = "frames1"
    /\ UNCHANGED <<prev, avail, markdown, run>>

NextFrames == ValidateFrameStructure

SpecFrames == InitFrames /\ [][NextFrames]_vars

\* the state of the Outside/Inside machine after the markers of a line, read
\* from left to right: an open marker leads Inside, a close marker Outside
RECURSIVE InsideAfter(_, _)
InsideAfter(line, inside) ==
    IF line = <<>> THEN inside
    ELSE InsideAfter(Tail(line), IF Head(line).k = "BF" THEN TRUE
                                 ELSE IF Head(line).k = "EF" THEN FALSE
                                 ELSE inside)

\* the lines the machine keeps: all but those with a centering directive
\* while Outside
RECURSIVE KeptLines(_, _)
KeptLines(lines, inside) ==
    IF lines = <<>> THEN <<>>
    ELSE LET now == InsideAfter(Head(lines), inside)
         IN (IF Has(Head(lines), "CEN") /\ ~now THEN <<>> ELSE <<Head(lines)>>)
            \o KeptLines(Tail(lines), now)

\* C24: the frame-scope filter returns the lines of its input in order,
\* without exactly the lines that hold a centering directive while the
\* Outside/Inside machine (open: Inside, close: Outside, initially Outside)
\* is Outside.
C24_FilterDropsExactlyOutsideCentering ==
    pc = "frames1" => body = JoinNL(KeptLines(SplitNL(prev), FALSE))


(***************************************************************************)
(* clean_latex_response applied to bodies wrapped in a code fence or in a  *)
(* document envelope                                                       *)
(***************************************************************************)
MaxEnvelopeBody == 4

EnvelopeAlphabet ==
    {Tok("FENCEL"), Tok("FENCE"), Tok("BD"), Tok("ED"), Tok("NL"), Tok("SP"), Tok("x")}

InitEnvelope ==
    /\ pc = "clean0"
    /\ body \in SeqsUpTo(EnvelopeAlphabet, MaxEnvelopeBody)
    /\ prev = body
    /\ avail = {}
    /\ markdown = NoMarkdown
    /\ run = NoRun

SpecEnvelope == InitEnvelope /\ [][NextClean]_vars

\* a code fence surrounds the body: ```latex first and ``` last, blanks aside
FenceWrapped(c) ==
    LET t == Strip(c)
    IN /\ Len(t) >= 2
       /\ t[1].k = "FENCEL" /\ t[Len(t)].k = "FENCE"
       /\ \A i \in 2..(Len(t) - 1) : t[i].k \notin {"FENCEL", "FENCE"}

\* a document envelope surrounds the body: one \begin{document}, and
\* \end{document}, when present, once and last
DocumentWrapped(c) ==
    LET t == Strip(c)
    IN /\ Count(c, "BD") = 1
       /\ Count(c, "ED") <= 1
       /\ Has(c, "ED") => t[Len(t)].k = "ED"

\* C25: when clean_latex_response returns on a body wrapped in a code fence
\* or a document envelope, its result holds no fence marker and neither
\* \begin{document} nor \end{document}, wherever the markers stood.
C25_EnvelopeRemoved ==
    pc = "clean1" =>
        /\ FenceWrapped(prev) => ~Has(body, "FENCEL") /\ ~Has(body, "FENCE")
        /\ DocumentWrapped(prev) => ~Has(body, "BD") /\ ~Has(body, "ED")


\* one step of _finalize_latex in the order of the claim
FinalizeInOrder ==
    /\ pc = "finalize" =>
          \/ pc' = "raised" /\ CleanRaises(body)
          \/ pc' = "cleaned" /\ body' = clean_latex_response(body)
    /\ pc = "cleaned" =>
          pc' = "validated" /\ body' = validate_and_fix_image_references(body, avail)
    /\ pc = "validated" =>
          pc' = "filtered" /\ body' = validate_frame_structure(body)
    /\ pc = "filtered" =>
          pc' = "done" /\ body' = remove_duplicate_images(body)
    /\ pc \notin {"raised", "done"}

\* C26: _finalize_latex runs clean_latex_response, then
\* validate_and_fix_image_references, then validate_frame_structure, then
\* remove_duplicate_images, each on the result of the pass before; when clean
\* raises, no later pass runs.
C26_FinalizeOrder == [][FinalizeInOrder]_vars

\* a finalization has returned in which the reference removal and a later
\* pass each changed the body
C26_Witness ==
    /\ pc = "done"
    /\ validate_and_fix_image_references(clean_latex_response(prev), avail)
          # clean_latex_response(prev)
    /\ body # validate_and_fix_image_references(clean_latex_response(prev), avail)

====
